---- MODULE Spec2Model ----
(***************************************************************************)
(* Model of scripts/build_nuitka.py: one run of main(), from argument      *)
(* parsing through NuitkaBuildConfig construction, validation, the clean   *)
(* step, command assembly and the single subprocess call.                  *)
(*                                                                         *)
(* Python values are represented as follows: str is a TLA+ string, a list  *)
(* is a sequence, None is the empty sequence <<>> and a present optional   *)
(* value v is <<v>>.  A filesystem path has one of three kinds: "absent",  *)
(* "file" or "dir".                                                        *)
(***************************************************************************)
EXTENDS Integers, Sequences, FiniteSets, TLC

VARIABLES
    args,       \* the parsed command line (argparse.Namespace)
    platform,   \* sys.platform
    cwdName,    \* Path.cwd().name
    mainKind,   \* kind of the path named by --main
    mainText,   \* <<text>> when that file decodes as UTF-8, <<>> otherwise
    fs,         \* kind of "dist", "build" and of each conventional data dir
    fs0,        \* the value of fs before the run (never changes)
    config,     \* <<>> before construction, <<NuitkaBuildConfig>> after
    cmd,        \* the argument list built by run_build
    pc,         \* position of the run in main()/run_build()
    invoked,    \* number of subprocess.run calls made
    child,      \* <<>> or <<outcome of the subprocess.run call>>
    exitCode    \* <<>> while running, <<status>> once the process has ended

vars == <<args, platform, cwdName, mainKind, mainText, fs, fs0, config, cmd,
          pc, invoked, child, exitCode>>

-----------------------------------------------------------------------------
(* Bounds *)

\* child exit statuses range over 0..MaxChildCode
MaxChildCode == 2

\* in the flag-assembly scenarios at most this many data directories are present
MaxPresent == 1

-----------------------------------------------------------------------------
(* Strings *)

\* Python `tok in s` on str
Contains(tok, s) ==
    \E i \in 1..(Len(s) - Len(tok) + 1) : SubSeq(s, i, i + Len(tok) - 1) = tok

UpperAlphabet == "ABCDEFGHIJKLMNOPQRSTUVWXYZ"
LowerAlphabet == "abcdefghijklmnopqrstuvwxyz"

LowerChar(ch) ==
    IF \E i \in 1..26 : SubSeq(UpperAlphabet, i, i) = ch
    THEN LET i == CHOOSE k \in 1..26 : SubSeq(UpperAlphabet, k, k) = ch
         IN  SubSeq(LowerAlphabet, i, i)
    ELSE ch

RECURSIVE LowerFrom(_, _)
LowerFrom(s, i) ==
    IF i > Len(s) THEN "" ELSE LowerChar(SubSeq(s, i, i)) \o LowerFrom(s, i + 1)

\* str.lower()
Lower(s) == LowerFrom(s, 1)

-----------------------------------------------------------------------------
(* pathlib *)

RECURSIVE SplitPath(_, _, _)
\* the components of s, split on "/", empty and "." components dropped
SplitPath(s, i, cur) ==
    LET done == IF cur \in {"", "."} THEN <<>> ELSE <<cur>>
    IN  IF i > Len(s) THEN done
        ELSE IF SubSeq(s, i, i) = "/" THEN done \o SplitPath(s, i + 1, "")
        ELSE SplitPath(s, i + 1, cur \o SubSeq(s, i, i))

\* Path(s) for a relative path s: its parts
Path(s) == SplitPath(s, 1, "")

\* Path.name
PathName(p) == IF p = <<>> THEN "" ELSE p[Len(p)]

\* str.rfind(ch), 1-based, 0 when ch does not occur
RFind(s, ch) ==
    LET hits == {i \in 1..Len(s) : SubSeq(s, i, i) = ch}
    IN  IF hits = {} THEN 0 ELSE CHOOSE i \in hits : \A j \in hits : j <= i

\* Path.stem
PathStem(p) ==
    LET name == PathName(p)
        i    == RFind(name, ".")
    IN  IF 1 < i /\ i < Len(name) THEN SubSeq(name, 1, i - 1) ELSE name

\* the path separator of the host's Path flavour
Sep(plat) == IF plat = "win32" THEN "\\" ELSE "/"

RECURSIVE JoinParts(_, _)
JoinParts(p, sep) ==
    IF Len(p) = 1 THEN p[1] ELSE p[1] \o sep \o JoinParts(Tail(p), sep)

\* str(Path)
PathStr(p, plat) == IF p = <<>> THEN "." ELSE JoinParts(p, Sep(plat))

-----------------------------------------------------------------------------
(* NuitkaBuildConfig *)

\* variant of FRAMEWORK_PLUGINS: tkinter has no plugin
FRAMEWORK_PLUGINS_TkEmpty ==
    [ pyside6 |-> <<"pyside6">>,
      pyqt6   |-> <<"pyqt6">>,
      pyqt5   |-> <<"pyqt5">>,
      qt      |-> <<"pyside6">>,
      ctk     |-> <<"tk-inter">>,
      tkinter |-> <<>>,
      flet    |-> <<>> ]


FRAMEWORK_PLUGINS ==
    [ pyside6 |-> <<"pyside6">>,
      pyqt6   |-> <<"pyqt6">>,
      pyqt5   |-> <<"pyqt5">>,
      qt      |-> <<"pyside6">>,
      ctk     |-> <<"tk-inter">>,
      tkinter |-> <<"tk-inter">>,
      flet    |-> <<>> ]

\* the `choices` of the --framework argument
FrameworkChoices == {"pyside6", "pyqt6", "pyqt5", "qt", "ctk", "tkinter", "flet"}

\* variant of DetectAppName: the comparison with 'main' is inverted
DetectAppName_Inverted(main_file, cwd) ==
    IF PathStem(main_file) = "main" THEN PathStem(main_file) ELSE cwd

\* _detect_app_name
DetectAppName(main_file, cwd) ==
    IF PathStem(main_file) # "main" THEN PathStem(main_file) ELSE cwd

\* variant of ScanContent: PyQt5 is tested before PySide6
ScanContent_PyQt5First(content) ==
    IF Contains("PyQt5", content) THEN "pyqt5"
    ELSE IF Contains("PySide6", content) \/ Contains("pyside6", content) THEN "pyside6"
    ELSE IF Contains("PyQt6", content) THEN "pyqt6"
    ELSE IF Contains("customtkinter", content) \/ Contains("ctk", content) THEN "ctk"
    ELSE IF Contains("flet", content) THEN "flet"
    ELSE IF Contains("tkinter", content) THEN "tkinter"
    ELSE "pyside6"

\* the if/elif chain of _detect_framework applied to the text read
ScanContent(content) ==
    IF Contains("PySide6", content) \/ Contains("pyside6", content) THEN "pyside6"
    ELSE IF Contains("PyQt6", content) THEN "pyqt6"
    ELSE IF Contains("PyQt5", content) THEN "pyqt5"
    ELSE IF Contains("customtkinter", content) \/ Contains("ctk", content) THEN "ctk"
    ELSE IF Contains("flet", content) THEN "flet"
    ELSE IF Contains("tkinter", content) THEN "tkinter"
    ELSE "pyside6"

\* _detect_framework: read_text raises unless the path is a decodable file
DetectFramework(kind, text) ==
    IF kind = "file" /\ text # <<>> THEN ScanContent(text[1]) ELSE "pyside6"

\* x or y, on an optional str x: None and "" are falsy
Truthy(opt) == opt # <<>> /\ opt[1] # ""

\* NuitkaBuildConfig.__init__
NewConfig(a, kind, text, cwd) ==
    LET main_file == Path(a.main)
    IN  [ main_file  |-> main_file,
          app_name   |-> IF Truthy(a.name) THEN a.name[1]
                         ELSE DetectAppName(main_file, cwd),
          icon       |-> a.icon,
          console    |-> a.console,
          onefile    |-> a.onefile,
          clean      |-> a.clean,
          framework  |-> IF Truthy(a.framework) THEN Lower(a.framework[1])
                         ELSE DetectFramework(kind, text),
          output_dir |-> <<"dist">>,
          build_dir  |-> <<"build">> ]

\* get_plugins
GetPlugins(framework) ==
    IF framework \in DOMAIN FRAMEWORK_PLUGINS THEN FRAMEWORK_PLUGINS[framework]
    ELSE <<>>

common_dirs == <<"assets", "resources", "static", "images", "icons", "fonts", "themes">>

\* variant of IsDir: any existing path counts
IsDir_Exists(f, d) == f[d] # "absent"

\* Path(d).is_dir()
IsDir(f, d) == f[d] = "dir"

\* Path(d).exists()
Exists(f, d) == f[d] # "absent"

RECURSIVE FindDirs(_, _)
FindDirs(f, ds) ==
    IF ds = <<>> THEN <<>>
    ELSE (IF IsDir(f, Head(ds)) THEN <<Head(ds)>> ELSE <<>>) \o FindDirs(f, Tail(ds))

\* get_data_dirs
GetDataDirs(f) == FindDirs(f, common_dirs)

-----------------------------------------------------------------------------
(* run_build *)

SysExecutable == "python3"

\* variant of MainFileExists: the existence check always passes
MainFileExists_NoCheck(kind) == TRUE

\* config.main_file.exists()
MainFileExists(kind) == kind # "absent"

\* shutil.rmtree(d) on an existing path: removes a directory tree, raises
\* NotADirectoryError on anything else
RmTree(f, d) ==
    IF f[d] = "dir" THEN [fs |-> [f EXCEPT ![d] = "absent"], raised |-> FALSE]
    ELSE [fs |-> f, raised |-> TRUE]

RECURSIVE CleanDirs(_, _)
\* for d in ds: if d.exists(): shutil.rmtree(d)
CleanDirs(f, ds) ==
    IF ds = <<>> THEN [fs |-> f, raised |-> FALSE]
    ELSE IF ~Exists(f, Head(ds)) THEN CleanDirs(f, Tail(ds))
    ELSE LET r == RmTree(f, Head(ds))
         IN  IF r.raised THEN r ELSE CleanDirs(r.fs, Tail(ds))

\* variant of CleanTargets: the build directory is not visited
CleanTargets_OutputOnly(cfg) == <<PathName(cfg.output_dir)>>

\* the directories the clean step visits, in order
CleanTargets(cfg) == <<PathName(cfg.output_dir), PathName(cfg.build_dir)>>

BaseFlags(cfg, plat) ==
    <<SysExecutable, "-m", "nuitka", "--standalone",
      "--output-dir=" \o PathStr(cfg.output_dir, plat)>>

ModeFlags(cfg) == IF cfg.onefile THEN <<"--onefile">> ELSE <<>>

\* variant of ConsoleFlags: the second branch does not test the platform
ConsoleFlags_NoPlatform(cfg, plat) ==
    IF plat = "win32" /\ ~cfg.console THEN <<"--windows-disable-console">>
    ELSE IF ~cfg.console THEN <<"--macos-disable-console">>
    ELSE <<>>


ConsoleFlags(cfg, plat) ==
    IF plat = "win32" /\ ~cfg.console THEN <<"--windows-disable-console">>
    ELSE IF plat = "darwin" /\ ~cfg.console THEN <<"--macos-disable-console">>
    ELSE <<>>

RECURSIVE PluginFlags(_)
PluginFlags(plugins) ==
    IF plugins = <<>> THEN <<>>
    ELSE <<"--enable-plugin=" \o Head(plugins)>> \o PluginFlags(Tail(plugins))

RECURSIVE DataFlags(_)
DataFlags(dirs) ==
    IF dirs = <<>> THEN <<>>
    ELSE <<"--include-data-dir=" \o Head(dirs) \o "=" \o Head(dirs)>>
         \o DataFlags(Tail(dirs))

IconFlags(cfg, plat) ==
    IF Truthy(cfg.icon)
    THEN IF plat = "win32" THEN <<"--windows-icon-from-ico=" \o cfg.icon[1]>>
         ELSE IF plat = "darwin" THEN <<"--macos-app-icon=" \o cfg.icon[1]>>
         ELSE <<>>
    ELSE <<>>

ProductFlags(cfg, plat) ==
    IF plat = "win32"
    THEN <<"--product-name=" \o cfg.app_name,
           "--file-description=" \o cfg.app_name,
           "--file-version=1.0.0.0",
           "--product-version=1.0.0.0">>
    ELSE <<>>

BundleFlags(cfg, plat) ==
    IF plat = "darwin"
    THEN <<"--macos-create-app-bundle", "--macos-app-name=" \o cfg.app_name>>
    ELSE <<>>

OptimizationFlags == <<"--assume-yes-for-downloads", "--remove-output">>

\* variant of BuildCmd: the icon flag is appended before the plugin flags
BuildCmd_IconEarly(cfg, plat, f) ==
    BaseFlags(cfg, plat)
    \o ModeFlags(cfg)
    \o ConsoleFlags(cfg, plat)
    \o IconFlags(cfg, plat)
    \o PluginFlags(GetPlugins(cfg.framework))
    \o DataFlags(GetDataDirs(f))
    \o ProductFlags(cfg, plat)
    \o BundleFlags(cfg, plat)
    \o OptimizationFlags
    \o <<PathStr(cfg.main_file, plat)>>

\* the list cmd as run_build builds it
BuildCmd(cfg, plat, f) ==
    BaseFlags(cfg, plat)
    \o ModeFlags(cfg)
    \o ConsoleFlags(cfg, plat)
    \o PluginFlags(GetPlugins(cfg.framework))
    \o DataFlags(GetDataDirs(f))
    \o IconFlags(cfg, plat)
    \o ProductFlags(cfg, plat)
    \o BundleFlags(cfg, plat)
    \o OptimizationFlags
    \o <<PathStr(cfg.main_file, plat)>>

\* what subprocess.run(cmd, check=True) can do: FileNotFoundError when the
\* executable cannot be started, otherwise the child's return code
ChildOutcomes ==
    {[found |-> FALSE, rc |-> 0]} \cup {[found |-> TRUE, rc |-> c] : c \in 0..MaxChildCode}

\* variant of ExecuteStatus: every failure of the child ends the run with 1
ExecuteStatus_Flat(outcome) ==
    IF ~outcome.found THEN 1
    ELSE IF outcome.rc # 0 THEN 1
    ELSE 0

\* the process status the try/except around subprocess.run ends the run with
ExecuteStatus(outcome) ==
    IF ~outcome.found THEN 1
    ELSE IF outcome.rc # 0 THEN outcome.rc
    ELSE 0

-----------------------------------------------------------------------------
(* Inputs *)

Platforms == {"win32", "darwin", "linux"}
Kinds == {"absent", "file", "dir"}

FsPaths == {"dist", "build"} \cup {common_dirs[i] : i \in DOMAIN common_dirs}
EmptyFs == [p \in FsPaths |-> "absent"]

DefaultArgs ==
    [ name |-> <<>>, main |-> "main.py", icon |-> <<>>, console |-> FALSE,
      onefile |-> FALSE, clean |-> FALSE, framework |-> <<>> ]

Contents ==
    { "import tkinter",
      "from PySide6 import QtWidgets; from PyQt5 import QtCore",
      "import pyside6",
      "import PyQt6; import PyQt5",
      "import PyQt5; import customtkinter",
      "import customtkinter",
      "import myctk; import flet",
      "import flet; import tkinter",
      "import leaflet",
      "import pyqt6",
      "print(1)" }

MainStates ==
    {<<"absent", <<>>>>, <<"dir", <<>>>>, <<"file", <<>>>>}
    \cup {<<"file", <<c>>>> : c \in Contents}

FrameworkArgs == {<<>>} \cup {<<c>> : c \in FrameworkChoices} \cup {<<"QT">>}

\* name and framework resolution: names, entry paths, entry-file states
InitResolve ==
    /\ platform \in Platforms
    /\ cwdName \in {"myproj", "tools"}
    /\ \E n \in {<<>>, <<"">>, <<"MyApp">>, <<"main">>},
          m \in {"main.py", "app.py", "./app.py", "src/main.py", ".py"},
          fw \in {<<>>, <<"qt">>, <<"QT">>, <<"tkinter">>} :
          args = [DefaultArgs EXCEPT !.name = n, !.main = m, !.framework = fw]
    /\ \E ms \in MainStates : mainKind = ms[1] /\ mainText = ms[2]
    /\ fs = EmptyFs

\* flag assembly: every option that selects a flag
InitCmd ==
    /\ platform \in Platforms
    /\ cwdName = "myproj"
    /\ \E ic \in {<<>>, <<"">>, <<"app.ico">>}, co \in BOOLEAN, of \in BOOLEAN,
          fw \in FrameworkArgs :
          args = [DefaultArgs EXCEPT !.main = "app.py", !.icon = ic, !.console = co,
                                     !.onefile = of, !.framework = fw]
    /\ mainKind = "file" /\ mainText = <<"import tkinter">>
    /\ \E f \in [FsPaths -> Kinds] :
          /\ f["dist"] = "absent" /\ f["build"] = "absent"
          /\ Cardinality({p \in FsPaths : f[p] # "absent"}) <= MaxPresent
          /\ fs = f

\* data-directory discovery: every state of the conventional directories
InitData ==
    /\ platform \in Platforms
    /\ cwdName = "myproj"
    /\ args = [DefaultArgs EXCEPT !.main = "app.py"]
    /\ mainKind = "file" /\ mainText = <<"import tkinter">>
    /\ fs \in {f \in [FsPaths -> Kinds] : f["dist"] = "absent" /\ f["build"] = "absent"}

\* validation, clean step and execution: entry file and build directories
InitRun ==
    /\ platform \in Platforms
    /\ cwdName = "myproj"
    /\ \E cl \in BOOLEAN, fw \in {<<>>, <<"qt">>} :
          args = [DefaultArgs EXCEPT !.clean = cl, !.framework = fw]
    /\ \E ms \in {<<"absent", <<>>>>, <<"dir", <<>>>>, <<"file", <<"import PyQt6">>>>} :
          mainKind = ms[1] /\ mainText = ms[2]
    /\ fs \in {f \in [FsPaths -> Kinds] :
                  \A p \in FsPaths \ {"dist", "build", "assets"} : f[p] = "absent"}

Init ==
    /\ InitResolve \/ InitCmd \/ InitData \/ InitRun
    /\ fs0 = fs
    /\ config = <<>>
    /\ cmd = <<>>
    /\ pc = "main"
    /\ invoked = 0
    /\ child = <<>>
    /\ exitCode = <<>>

-----------------------------------------------------------------------------
(* Steps of main() *)

\* parser.parse_args() and NuitkaBuildConfig(args)
Main ==
    /\ pc = "main"
    /\ IF args.framework # <<>> /\ args.framework[1] \notin FrameworkChoices
       THEN /\ pc' = "exit"
            /\ exitCode' = <<2>>
            /\ UNCHANGED config
       ELSE /\ config' = <<NewConfig(args, mainKind, mainText, cwdName)>>
            /\ pc' = "validate"
            /\ UNCHANGED exitCode
    /\ UNCHANGED <<args, platform, cwdName, mainKind, mainText, fs, fs0, cmd,
                   invoked, child>>

\* run_build: validate that the main file exists
Validate ==
    /\ pc = "validate"
    /\ IF ~MainFileExists(mainKind)
       THEN pc' = "exit" /\ exitCode' = <<1>>
       ELSE pc' = "clean" /\ UNCHANGED exitCode
    /\ UNCHANGED <<args, platform, cwdName, mainKind, mainText, fs, fs0, config,
                   cmd, invoked, child>>

\* run_build: clean previous builds if requested; an exception raised by
\* shutil.rmtree is not caught and ends the process with status 1
Clean ==
    /\ pc = "clean"
    /\ IF config[1].clean
       THEN LET r == CleanDirs(fs, CleanTargets(config[1]))
            IN  /\ fs' = r.fs
                /\ IF r.raised
                   THEN pc' = "exit" /\ exitCode' = <<1>>
                   ELSE pc' = "assemble" /\ UNCHANGED exitCode
       ELSE pc' = "assemble" /\ UNCHANGED <<fs, exitCode>>
    /\ UNCHANGED <<args, platform, cwdName, mainKind, mainText, fs0, config, cmd,
                   invoked, child>>

\* run_build: build the command
Assemble ==
    /\ pc = "assemble"
    /\ cmd' = BuildCmd(config[1], platform, fs)
    /\ pc' = "exec"
    /\ UNCHANGED <<args, platform, cwdName, mainKind, mainText, fs, fs0, config,
                   invoked, child, exitCode>>

\* run_build: subprocess.run(cmd, check=True) and its three outcomes; a child
\* that was started may have created the output directory
Execute ==
    /\ pc = "exec"
    /\ \E outcome \in ChildOutcomes, made \in BOOLEAN :
          /\ child' = <<outcome>>
          /\ exitCode' = <<ExecuteStatus(outcome)>>
          /\ fs' = IF outcome.found /\ made THEN [fs EXCEPT !["dist"] = "dir"] ELSE fs
    /\ invoked' = invoked + 1
    /\ pc' = "exit"
    /\ UNCHANGED <<args, platform, cwdName, mainKind, mainText, fs0, config, cmd>>

Next == Main \/ Validate \/ Clean \/ Assemble \/ Execute

Spec == Init /\ [][Next]_vars

-----------------------------------------------------------------------------
(* Properties *)

Cfg == config[1]

StartsWith(s, p) == Len(s) >= Len(p) /\ SubSeq(s, 1, Len(p)) = p
InCmd(s) == \E i \in DOMAIN cmd : cmd[i] = s
\* the command has just been built (it does not change afterwards)
Assembled == pc = "exec"

\* the flags of the command: everything after `python -m nuitka` and before
\* the final positional argument
Flags == SubSeq(cmd, 4, Len(cmd) - 1)

\* C1: a run whose entry-point file is missing when run_build starts ends
\* with exit code 1 and never invokes the subprocess (it never gets past
\* validation), whatever the other options are.
C1_MissingEntry ==
    (config # <<>> /\ mainKind = "absent") =>
        /\ pc \in {"validate", "exit"}
        /\ invoked = 0 /\ child = <<>>
        /\ (pc = "exit" => exitCode = <<1>>)

C1_Witness ==
    /\ pc = "exit" /\ config # <<>> /\ mainKind = "absent"
    /\ args.clean /\ args.framework # <<>> /\ exitCode = <<1>>

\* C2: when the entry-point file exists, the final exit code is 0 exactly
\* when the child exited 0, equals the child's code c when the child exited
\* with c # 0, and is 1 when the executable could not be started; the
\* subprocess is invoked at most once.
C2_ExitCode ==
    /\ invoked <= 1
    /\ (child # <<>>) <=> (invoked = 1)
    /\ (pc = "exit" /\ config # <<>> /\ mainKind # "absent") =>
          /\ (exitCode = <<0>>) <=> (child # <<>> /\ child[1].found /\ child[1].rc = 0)
          /\ (child # <<>> /\ child[1].found /\ child[1].rc # 0) => exitCode = <<child[1].rc>>
          /\ (child # <<>> /\ ~child[1].found) => exitCode = <<1>>

C2_Witness ==
    /\ pc = "exit" /\ mainKind = "file" /\ invoked = 1
    /\ child = <<[found |-> TRUE, rc |-> 2]>> /\ exitCode = <<2>>

C3_Scenario ==
    /\ args = [DefaultArgs EXCEPT !.main = "app.py"]
    /\ mainKind = "file" /\ mainText = <<"import tkinter">>
    /\ platform = "win32"
    /\ Assembled

C3_Common ==
    /\ Cfg.framework = "tkinter"
    /\ Cfg.app_name = "app"
    /\ InCmd("--standalone")
    /\ InCmd("--output-dir=dist")
    /\ InCmd("--windows-disable-console")
    /\ InCmd("--product-name=app") /\ InCmd("--file-description=app")
    /\ InCmd("--file-version=1.0.0.0") /\ InCmd("--product-version=1.0.0.0")
    /\ Len(cmd) >= 3
    /\ cmd[Len(cmd) - 2] = "--assume-yes-for-downloads"
    /\ cmd[Len(cmd) - 1] = "--remove-output"
    /\ cmd[Len(cmd)] = "app.py"

PluginFlagsInCmd == SelectSeq(cmd, LAMBDA s : StartsWith(s, "--enable-plugin="))

\* C3 as stated: in the app.py / "import tkinter" / Windows scenario the
\* framework is tkinter, it maps to an empty plugin list and the command
\* carries no plugin-enabling flag, the name is "app" and the listed flags
\* are present with "app.py" last.
C3_AsStated ==
    C3_Scenario =>
        /\ C3_Common
        /\ GetPlugins(Cfg.framework) = <<>>
        /\ PluginFlagsInCmd = <<>>

\* C3 amended: as above, except that tkinter maps to the plugin list
\* [tk-inter] and the command carries exactly the one plugin-enabling flag
\* --enable-plugin=tk-inter.
C3_Amended ==
    C3_Scenario =>
        /\ C3_Common
        /\ GetPlugins(Cfg.framework) = <<"tk-inter">>
        /\ PluginFlagsInCmd = <<"--enable-plugin=tk-inter">>

C3_Witness ==
    C3_Scenario /\ InCmd("--enable-plugin=tk-inter")

\* the position of a flag in the order the specification lists, 0 for a
\* string that is none of the flags
FlagRank(s) ==
    IF s = "--standalone" THEN 1
    ELSE IF StartsWith(s, "--output-dir=") THEN 2
    ELSE IF s = "--onefile" THEN 3
    ELSE IF s \in {"--windows-disable-console", "--macos-disable-console"} THEN 4
    ELSE IF StartsWith(s, "--enable-plugin=") THEN 5
    ELSE IF StartsWith(s, "--include-data-dir=") THEN 6
    ELSE IF StartsWith(s, "--windows-icon-from-ico=") \/ StartsWith(s, "--macos-app-icon=") THEN 7
    ELSE IF \/ StartsWith(s, "--product-name=") \/ StartsWith(s, "--file-description=")
            \/ StartsWith(s, "--file-version=") \/ StartsWith(s, "--product-version=") THEN 8
    ELSE IF s = "--macos-create-app-bundle" THEN 9
    ELSE IF StartsWith(s, "--macos-app-name=") THEN 10
    ELSE IF s = "--assume-yes-for-downloads" THEN 11
    ELSE IF s = "--remove-output" THEN 12
    ELSE 0

RankCount(r) == Cardinality({i \in DOMAIN Flags : FlagRank(Flags[i]) = r})

PresentDataDirs == {i \in DOMAIN common_dirs : fs[common_dirs[i]] = "dir"}

\* C4: the flags of every assembled command appear in the listed order
\* (standalone, output-dir, single-file, console-disable, plugins, data
\* dirs, icon, Windows metadata, macOS bundle and app name, auto-confirm,
\* remove-output), each group with the stated multiplicity, and the
\* entry-point path is the last element.
C4_FlagOrder ==
    Assembled =>
        /\ \A i \in DOMAIN Flags : FlagRank(Flags[i]) >= 1
        /\ \A i, j \in DOMAIN Flags : i < j => FlagRank(Flags[i]) <= FlagRank(Flags[j])
        /\ RankCount(1) = 1 /\ RankCount(2) = 1
        /\ RankCount(3) = (IF Cfg.onefile THEN 1 ELSE 0)
        /\ RankCount(4) <= 1
        /\ RankCount(5) = Len(GetPlugins(Cfg.framework))
        /\ RankCount(6) = Cardinality(PresentDataDirs)
        /\ RankCount(7) <= 1
        /\ RankCount(8) = (IF platform = "win32" THEN 4 ELSE 0)
        /\ RankCount(9) = (IF platform = "darwin" THEN 1 ELSE 0)
        /\ RankCount(10) = (IF platform = "darwin" THEN 1 ELSE 0)
        /\ RankCount(11) = 1 /\ RankCount(12) = 1
        /\ cmd[Len(cmd)] = PathStr(Cfg.main_file, platform)

C4_Witness ==
    /\ Assembled /\ platform = "darwin" /\ Cfg.onefile /\ ~Cfg.console
    /\ RankCount(5) = 1 /\ RankCount(6) = 1 /\ RankCount(7) = 1

WindowsFlag(s) ==
    \/ s = "--windows-disable-console"
    \/ StartsWith(s, "--windows-icon-from-ico=")
    \/ StartsWith(s, "--product-name=") \/ StartsWith(s, "--file-description=")
    \/ StartsWith(s, "--file-version=") \/ StartsWith(s, "--product-version=")

MacFlag(s) ==
    \/ s = "--macos-disable-console"
    \/ StartsWith(s, "--macos-app-icon=")
    \/ s = "--macos-create-app-bundle"
    \/ StartsWith(s, "--macos-app-name=")

HasWindowsFlag == \E i \in DOMAIN cmd : WindowsFlag(cmd[i])
HasMacFlag == \E i \in DOMAIN cmd : MacFlag(cmd[i])

\* C5: with console=false the command has the Windows console-disable flag
\* only on win32 and the macOS one only on darwin, and neither elsewhere;
\* with console=true it has neither; no command mixes Windows-specific and
\* macOS-specific flags, and on other hosts it has none of them.
C5_PlatformFlags ==
    Assembled =>
        /\ InCmd("--windows-disable-console") <=> (platform = "win32" /\ ~Cfg.console)
        /\ InCmd("--macos-disable-console") <=> (platform = "darwin" /\ ~Cfg.console)
        /\ ~(HasWindowsFlag /\ HasMacFlag)
        /\ platform \notin {"win32", "darwin"} => ~HasWindowsFlag /\ ~HasMacFlag

C5_Witness ==
    /\ Assembled /\ platform = "linux" /\ ~Cfg.console /\ Truthy(Cfg.icon)
    /\ ~HasWindowsFlag /\ ~HasMacFlag

\* the identifying tokens in priority order
TokenPriority ==
    << [fw |-> "pyside6", toks |-> {"PySide6", "pyside6"}],
       [fw |-> "pyqt6",   toks |-> {"PyQt6"}],
       [fw |-> "pyqt5",   toks |-> {"PyQt5"}],
       [fw |-> "ctk",     toks |-> {"customtkinter", "ctk"}],
       [fw |-> "flet",    toks |-> {"flet"}],
       [fw |-> "tkinter", toks |-> {"tkinter"}] >>

HasToken(i, text) == \E t \in TokenPriority[i].toks : Contains(t, text)

\* C6: without --framework, the resolved framework is that of the first
\* token in priority order that the entry file's text contains, and the
\* default (pyside6) when the file cannot be read or holds no token, in
\* which case the run is not ended by detection; with --framework the
\* supplied identifier is the resolved framework.
C6_Detection ==
    /\ (pc = "exit" /\ config = <<>>) => args.framework # <<>>
    /\ config # <<>> =>
        IF args.framework # <<>> THEN Cfg.framework = args.framework[1]
        ELSE IF mainKind = "file" /\ mainText # <<>>
        THEN /\ \A i \in DOMAIN TokenPriority :
                    (HasToken(i, mainText[1]) /\ \A j \in 1..(i - 1) : ~HasToken(j, mainText[1]))
                        => Cfg.framework = TokenPriority[i].fw
             /\ (\A i \in DOMAIN TokenPriority : ~HasToken(i, mainText[1]))
                    => Cfg.framework = "pyside6"
        ELSE /\ Cfg.framework = "pyside6"
             /\ (pc = "exit" /\ mainKind # "absent" /\ ~Cfg.clean) => invoked = 1

C6_Witness ==
    /\ config # <<>> /\ args.framework = <<>>
    /\ mainText = <<"from PySide6 import QtWidgets; from PyQt5 import QtCore">>
    /\ Cfg.framework = "pyside6"

\* Path(m).stem for the entry paths of the model, as Python computes it
ExpectedStem(m) ==
    IF m \in {"app.py", "./app.py"} THEN "app"
    ELSE IF m \in {"main.py", "src/main.py"} THEN "main"
    ELSE m

DerivedName == IF ExpectedStem(args.main) # "main" THEN ExpectedStem(args.main) ELSE cwdName

\* C7 as stated: a supplied name is the resolved name verbatim; otherwise
\* the name is the entry file's stem when that differs from "main", and the
\* working directory's name when it does not.
C7_AsStated ==
    config # <<>> =>
        IF args.name # <<>> THEN Cfg.app_name = args.name[1]
        ELSE Cfg.app_name = DerivedName

\* C7 amended: a supplied non-empty name is the resolved name verbatim;
\* otherwise (no name, or the empty name) the name is the entry file's stem
\* when that differs from "main", and the working directory's name when it
\* does not.
C7_Amended ==
    config # <<>> =>
        IF args.name # <<>> /\ args.name[1] # "" THEN Cfg.app_name = args.name[1]
        ELSE Cfg.app_name = DerivedName

C7_Witness ==
    /\ config # <<>> /\ args.name = <<"">> /\ args.main = "src/main.py"
    /\ Cfg.app_name = cwdName

DataFlagsInCmd == SelectSeq(cmd, LAMBDA s : StartsWith(s, "--include-data-dir="))

IndexIn(seq, d) == CHOOSE i \in DOMAIN seq : seq[i] = d

\* C8: discovery returns exactly the candidates that are directories, in
\* the candidate list's order and without duplicates (empty when there are
\* none), and the command has exactly one data-inclusion flag d=d per
\* returned directory d, in the same order.
C8_DataDirs ==
    Assembled =>
        LET found == GetDataDirs(fs)
        IN  /\ \A k \in DOMAIN common_dirs :
                   (\E i \in DOMAIN found : found[i] = common_dirs[k])
                       <=> fs[common_dirs[k]] = "dir"
            /\ \A i \in DOMAIN found : \E k \in DOMAIN common_dirs : found[i] = common_dirs[k]
            /\ \A i, j \in DOMAIN found :
                   i < j => IndexIn(common_dirs, found[i]) < IndexIn(common_dirs, found[j])
            /\ PresentDataDirs = {} => found = <<>>
            /\ Len(DataFlagsInCmd) = Len(found)
            /\ \A i \in DOMAIN found :
                   DataFlagsInCmd[i] = "--include-data-dir=" \o found[i] \o "=" \o found[i]

C8_Witness ==
    /\ Assembled
    /\ fs["assets"] = "dir" /\ fs["static"] = "file" /\ fs["themes"] = "dir"
    /\ DataFlagsInCmd = <<"--include-data-dir=assets=assets", "--include-data-dir=themes=themes">>

BuildDirs == {"dist", "build"}

\* C9: with clean=true and an existing entry file, once the clean step is
\* over and until the subprocess runs neither dist nor build exists,
\* whichever of them were directories or absent before; such a run goes on
\* to invoke the subprocess; the subprocess is not invoked before the clean
\* step is over; with clean=false the tool removes neither directory.
C9_Clean ==
    /\ pc \in {"main", "validate", "clean"} => invoked = 0
    /\ config # <<>> =>
        /\ (Cfg.clean /\ pc \in {"assemble", "exec"}) =>
               \A d \in BuildDirs : fs[d] = "absent"
        /\ (Cfg.clean /\ pc = "exit" /\ mainKind # "absent"
                /\ \A d \in BuildDirs : fs0[d] \in {"absent", "dir"}) => invoked = 1
        /\ ~Cfg.clean => \A d \in BuildDirs : fs0[d] = "dir" => fs[d] = "dir"

C9_Witness ==
    /\ config # <<>> /\ Cfg.clean /\ pc = "exec"
    /\ fs0["dist"] = "dir" /\ fs0["build"] = "dir"
    /\ fs["dist"] = "absent" /\ fs["build"] = "absent"

\* C10: a run that fails because the entry-point file is missing leaves
\* dist and build as they were, even with clean=true, and the tool removes
\* a directory only in runs that go on to invoke the subprocess.
C10_CleanOnlyWhenBuilding ==
    /\ (config # <<>> /\ mainKind = "absent") => fs = fs0
    /\ (pc = "exit" /\ invoked = 0) => \A d \in BuildDirs : fs0[d] = "dir" => fs[d] = "dir"

====
